---- MODULE Spec2Model ----
(***************************************************************************)
(* Faculty scraper service (src/app.py): a Flask application whose POST    *)
(* /api/faculty/refresh handler crawls every department with a thread pool,*)
(* sorts the result and writes it to a cache blob, and whose GET           *)
(* /api/faculty handler answers from that blob.                            *)
(*                                                                         *)
(* Text (names, titles) is a sequence of character codes, so that          *)
(* str.lower() and the string order of the sort key are computed, not      *)
(* assumed.  A timestamp is the clock value it was formatted from; the     *)
(* format "%Y-%m-%d %H:%M:%S IST" is fixed-width, so its order is the      *)
(* clock's order, and 0 stands for the empty string ''.                    *)
(***************************************************************************)
EXTENDS Integers, Sequences, FiniteSets, Bags, TLC

\* ------------------------------------------------------------------ bounds
\* Number of POST /api/faculty/refresh requests of a behaviour.
MaxReq == 2
\* Longest listing page, in cards.
MaxCards == 2
\* Last value of the wall clock.
MaxClock == 2
\* Longest text after the AREAS OF INTEREST label, in pieces.
MaxText == 6

\* --------------------------------------------------------------- constants
None == "None"

\* src/app.py:17-20, in the dict's insertion order.
DeptOrder == <<"ece", "cse", "eee", "biot", "chem", "mech", "mme", "sos", "shm", "civil">>

DEPARTMENTS_shared_id == [k \in {DeptOrder[i] : i \in 1..Len(DeptOrder)} |-> 0]

DEPARTMENTS ==
  [ece |-> 0, cse |-> 1, eee |-> 2, biot |-> 3, chem |-> 4,
   mech |-> 5, mme |-> 6, sos |-> 7, shm |-> 8, civil |-> 9]

\* ThreadPoolExecutor(max_workers=5)
max_workers == 5

Reqs == 1..MaxReq

\* ------------------------------------------------------------------- text
\* str.lower() on ASCII text.
lower(s) == [i \in DOMAIN s |-> IF s[i] >= 65 /\ s[i] <= 90 THEN s[i] + 32 ELSE s[i]]

\* Python's str < str: the first differing code decides, a proper prefix is smaller.
RECURSIVE StrLess(_, _)
StrLess(a, b) ==
  IF b = <<>> THEN FALSE
  ELSE IF a = <<>> THEN TRUE
  ELSE IF a[1] # b[1] THEN a[1] < b[1]
  ELSE StrLess(Tail(a), Tail(b))

\* ------------------------------------------------------- the crawled site
\* A card (div.well) of a listing page: img is None when the card has no
\* <img>, else its src attribute ("" when absent); h5 lists the card's <h5>
\* elements in document order, mh marking class media-heading; href tells
\* whether the card's first <a> carries an href; page is what the detail page
\* behind it holds.
NoPage == [number |-> None, email |-> None, areas_of_interest |-> None]

SomePage == [number |-> "9876543210", email |-> "a@x.in", areas_of_interest |-> "Networks"]

CardPlain == [img |-> "p.jpg", h5 |-> <<[mh |-> TRUE, text |-> <<97>>], [mh |-> FALSE, text |-> <<84>>]>>,
              href |-> FALSE, page |-> NoPage]

CardUpper == [img |-> "", h5 |-> <<[mh |-> TRUE, text |-> <<65>>], [mh |-> FALSE, text |-> <<84>>]>>,
              href |-> TRUE, page |-> SomePage]

CardNameOnly == [img |-> "p.jpg", h5 |-> <<[mh |-> TRUE, text |-> <<66>>]>>,
                 href |-> FALSE, page |-> NoPage]

CardNoImg == [img |-> None, h5 |-> <<[mh |-> TRUE, text |-> <<97>>], [mh |-> FALSE, text |-> <<84>>]>>,
              href |-> TRUE, page |-> SomePage]

CardSet == {CardPlain, CardUpper, CardNameOnly, CardNoImg}

SeqsUpTo(S, n) == UNION {[1..k -> S] : k \in 0..n}

Listings == SeqsUpTo(CardSet, MaxCards)

\* The departments a specification crawls: one where the requests are what
\* matters, two where the records are, all of them where the pool is.
OneDept == {"ece"}

TwoDepts == {"ece", "cse"}

\* --------------------------------------------------------------- fetching
\* What the network answers to one GET: ok is FALSE for a connection error, a
\* timeout or a non-2xx status, body is the document otherwise.
Answer(ok, body) == [ok |-> ok, body |-> body]

\* fetch(): the body, or None for every failure.  The optional body is a
\* sequence of at most one document, <<>> being None.
fetch(answer) == IF answer.ok THEN <<answer.body>> ELSE <<>>

\* ------------------------------------------------------------- extraction
\* card.find("h5", class_="media-heading"): index of the first such <h5>, 0 for None.
name_tag(card) ==
  LET hits == {i \in 1..Len(card.h5) : card.h5[i].mh}
  IN IF hits = {} THEN 0 ELSE CHOOSE i \in hits : \A j \in hits : i <= j

\* if not img or not name_tag or not all_h5: continue
skipped(card) == card.img = None \/ name_tag(card) = 0 \/ Len(card.h5) = 0

\* The entry of one card; sub_html is the optional detail page.
entry_of(dept, id_, card, sub_html) ==
  LET found == card.href /\ sub_html # <<>>
      page  == IF found THEN sub_html[1] ELSE NoPage
  IN [id |-> id_, department |-> dept,
      name |-> card.h5[name_tag(card)].text,
      title |-> card.h5[Len(card.h5)].text,
      image |-> card.img,
      email |-> page.email,
      areas_of_interest |-> page.areas_of_interest,
      number |-> page.number]

\* The loop over the cards of a listing; detail_ok[i] is the outcome of the
\* detail fetch of card i (consulted only when the card has a link).
RECURSIVE scrape_cards_raising(_, _, _, _, _)
scrape_cards_raising(dept, id_, cards, detail_ok, i) ==
  IF i > Len(cards) THEN <<>>
  ELSE LET card == cards[i]
       IN IF skipped(card) THEN scrape_cards_raising(dept, id_, cards, detail_ok, i + 1)
          ELSE IF card.href /\ ~detail_ok[i] THEN <<>>
          ELSE <<entry_of(dept, id_, card, IF card.href THEN <<card.page>> ELSE <<>>)>>
               \o scrape_cards_raising(dept, id_, cards, detail_ok, i + 1)

RECURSIVE scrape_cards(_, _, _, _, _)
scrape_cards(dept, id_, cards, detail_ok, i) ==
  IF i > Len(cards) THEN <<>>
  ELSE LET card == cards[i]
           rest == scrape_cards(dept, id_, cards, detail_ok, i + 1)
       IN IF skipped(card) THEN rest
          ELSE <<entry_of(dept, id_, card,
                          IF card.href THEN fetch(Answer(detail_ok[i], card.page)) ELSE <<>>)>>
               \o rest

\* scrape_department(dept, id_): html is the optional listing page.
scrape_department(dept, id_, html, detail_ok) ==
  IF html = <<>> THEN <<>>
  ELSE scrape_cards(dept, id_, html[1], detail_ok, 1)

\* ---------------------------------------------------------------- sorting
\* key=lambda x: (x["id"], x["name"].lower())
sort_key(x) == <<x.id, lower(x.name)>>

\* Python's tuple order on two keys.
KeyLess(k1, k2) == k1[1] < k2[1] \/ (k1[1] = k2[1] /\ StrLess(k1[2], k2[2]))

\* list.sort() is stable: an element goes behind every element that is not greater.
insert_before_equal(s, x) ==
  LET n == Cardinality({i \in 1..Len(s) : KeyLess(sort_key(s[i]), sort_key(x))})
  IN SubSeq(s, 1, n) \o <<x>> \o SubSeq(s, n + 1, Len(s))

insert(s, x) ==
  LET n == Cardinality({i \in 1..Len(s) : ~KeyLess(sort_key(x), sort_key(s[i]))})
  IN SubSeq(s, 1, n) \o <<x>> \o SubSeq(s, n + 1, Len(s))

RECURSIVE sort(_)
sort(s) == IF s = <<>> THEN <<>> ELSE insert(sort(SubSeq(s, 1, Len(s) - 1)), s[Len(s)])

\* all_faculty.extend(faculty_list)
extend_overwrite(all, faculty_list) == faculty_list

extend(all, faculty_list) == all \o faculty_list

\* ------------------------------------------------- areas of interest text
\* Text is a sequence of words; " " is a run of whitespace, "http://" a
\* scheme http:// or https://, "w" a word of none of the other kinds, and a
\* label word stands for itself in any letter case (re.IGNORECASE).
\* The stripped text of the <b> element found by "AREAS OF INTEREST" in x.upper().
aoi_label == "AREAS OF INTEREST"

RECURSIVE Flatten(_)
Flatten(ss) == IF ss = <<>> THEN <<>> ELSE Head(ss) \o Flatten(Tail(ss))

\* What a page writes after the label: plain words, whitespace, colons,
\* schemes, and the words of the two labels, those of the second one together.
Pieces ==
  {<<"w">>, <<" ">>, <<":">>, <<"http://">>, <<"EXTERNAL">>, <<"LINK">>, <<"PERSONAL", "WEB", "PAGE">>}

Texts(n) == {Flatten(ps) : ps \in SeqsUpTo(Pieces, n)}

\* The detail pages: without a labelled block, or with one and its text.
Subs(n) == {<<>>} \cup {<<t>> : t \in Texts(n)}

\* str.strip(chars)
strip(t, chars) ==
  LET keep == {i \in 1..Len(t) : t[i] \notin chars}
  IN IF keep = {} THEN <<>>
     ELSE SubSeq(t, CHOOSE i \in keep : \A j \in keep : i <= j,
                    CHOOSE i \in keep : \A j \in keep : j <= i)

\* aoi_block.parent.get_text(" ", strip=True): the label and the stripped
\* text after it, joined by a space.
get_text(rest) ==
  LET body == strip(rest, {" "})
  IN <<aoi_label>> \o (IF body = <<>> THEN <<>> ELSE <<" ">> \o body)

\* str.replace(old, "")
replace(t, old) == SelectSeq(t, LAMBDA x : x # old)

\* The first index from i on that is not whitespace (Len(t) + 1 if none).
skip_spaces(t, i) ==
  CHOOSE j \in i..(Len(t) + 1) :
    /\ \A k \in i..(j - 1) : t[k] = " "
    /\ j = Len(t) + 1 \/ t[j] # " "

\* The first index from i on that is whitespace (Len(t) + 1 if none): the end of \S+.
skip_nonspaces(t, i) ==
  CHOOSE j \in i..(Len(t) + 1) :
    /\ \A k \in i..(j - 1) : t[k] # " "
    /\ j = Len(t) + 1 \/ t[j] = " "

\* url_cleaner.sub("", t) with url_cleaner = https?://\S+
RECURSIVE url_cleaner_sub(_, _)
url_cleaner_sub(t, i) ==
  IF i > Len(t) THEN <<>>
  ELSE IF t[i] = "http://" /\ i < Len(t) /\ t[i + 1] # " "
       THEN url_cleaner_sub(t, skip_nonspaces(t, i + 1))
       ELSE <<t[i]>> \o url_cleaner_sub(t, i + 1)

\* The two patterns, as their words; \s* stands between the words and
\* \s*:? after the last.
remove_labels == << <<"EXTERNAL", "LINK">>, <<"PERSONAL", "WEB", "PAGE">> >>

\* Where a match of the pattern's words k.. that starts at i ends (the index
\* after it), or 0 when there is none.
RECURSIVE match_end(_, _, _, _)
match_end(t, i, pattern, k) ==
  IF k > Len(pattern)
  THEN IF i <= Len(t) /\ t[i] = ":" THEN i + 1 ELSE i
  ELSE IF i <= Len(t) /\ t[i] = pattern[k]
       THEN match_end(t, skip_spaces(t, i + 1), pattern, k + 1)
       ELSE 0

\* re.sub(pattern, "", t, flags=re.IGNORECASE): one pass, left to right, over
\* the non-overlapping matches.
RECURSIVE re_sub(_, _, _)
re_sub(pattern, t, i) ==
  IF i > Len(t) THEN <<>>
  ELSE LET e == match_end(t, i, pattern, 1)
       IN IF e # 0 THEN re_sub(pattern, t, e) ELSE <<t[i]>> \o re_sub(pattern, t, i + 1)

\* entry["areas_of_interest"] of a fetched detail page: none (<<>>) or <<text>>.
areas_of_interest(page) ==
  IF page = <<>> THEN <<>>
  ELSE LET aoi_text1 == replace(get_text(page[1]), aoi_label)
           aoi_text2 == strip(aoi_text1, {" ", ":"})
           aoi_text3 == strip(url_cleaner_sub(aoi_text2, 1), {" "})
           aoi_text4 == re_sub(remove_labels[1], aoi_text3, 1)
           aoi_text5 == re_sub(remove_labels[2], aoi_text4, 1)
           aoi_text == strip(aoi_text5, {" "})
       IN IF aoi_text # <<>> THEN <<aoi_text>> ELSE <<>>

\* ------------------------------------------------------------ cache blob
\* The object faculty_cache.json of the bucket; exists is FALSE before the
\* first successful upload.
NoBlob == [exists |-> FALSE, faculty |-> <<>>, timestamp |-> 0]

\* save_cache(data, timestamp): the upload replaces the object in one request;
\* an exception (ok = FALSE) is printed and leaves the object as it was.
save_cache_keeps_timestamp(blob, faculty, timestamp, ok) ==
  IF ok
  THEN [exists |-> TRUE, faculty |-> faculty,
        timestamp |-> IF blob.exists THEN blob.timestamp ELSE timestamp]
  ELSE blob

save_cache(blob, faculty, timestamp, ok) ==
  IF ok THEN [exists |-> TRUE, faculty |-> faculty, timestamp |-> timestamp] ELSE blob

\* load_cache(): (faculty, timestamp), or ([], '') when the object is absent
\* or the download raises (ok = FALSE).
load_cache(blob, ok) ==
  IF ok /\ blob.exists THEN <<blob.faculty, blob.timestamp>> ELSE <<<<>>, 0>>

\* ------------------------------------------------------------- responses
\* The JSON body of GET /api/faculty, given what load_cache returned.
get_faculty_body(loaded, now) ==
  IF loaded[1] # <<>>
  THEN [status |-> "success", data |-> loaded[1], count |-> Len(loaded[1]),
        last_refreshed |-> IF loaded[2] # 0 THEN loaded[2] ELSE now]
  ELSE [status |-> "no_data", data |-> <<>>, count |-> 0, last_refreshed |-> 0]

\* The JSON body of POST /api/faculty/refresh on the try path.
refresh_body_empty_is_error(faculty, current) ==
  IF faculty = <<>>
  THEN [status |-> "error", data |-> <<>>, count |-> 0, last_refreshed |-> 0]
  ELSE [status |-> "success", data |-> faculty, count |-> Len(faculty), last_refreshed |-> current]

refresh_body(faculty, current) ==
  [status |-> "success", data |-> faculty, count |-> Len(faculty), last_refreshed |-> current]

\* ... and on the except path (status 500).
refresh_error_body == [status |-> "error", data |-> <<>>, count |-> 0, last_refreshed |-> 0]

NoBody == [status |-> "none", data |-> <<>>, count |-> 0, last_refreshed |-> 0]

\* The JSON bodies of GET / and GET /api/health.
root_body(now) == [status |-> "online", message |-> "Faculty Scraper API - Google Cloud Run", timestamp |-> now]

health_check_body(now) == [status |-> "online", service |-> "Faculty Scraper API", region |-> "asia-south1", timestamp |-> now]

NoProbe == [status |-> "none"]

Unparsed == [done |-> FALSE, areas_of_interest |-> <<>>]

\* ------------------------------------------------------------------ state
VARIABLES
  web,          \* department -> the listing page its site serves
  clock,        \* the wall clock
  cache,        \* the cache blob
  pc,           \* request -> where its refresh_faculty handler stands
  task,         \* request -> department -> the future of scrape_department
  all_faculty,  \* request -> scrape_all's accumulator as the as_completed loop left it
  data,         \* request -> what scrape_all returned
  current_time, \* request -> the handler's current_time
  resp,         \* request -> the body the handler answered with
  held,         \* history: request -> the cache blob when the handler started
  saved,        \* history: request -> did its upload succeed
  last_done,    \* history: the request that answered last, 0 before the first
  read,         \* the body of the latest GET /api/faculty
  probe,        \* the body of the latest GET / or GET /api/health
  sub,          \* a fetched detail page: the optional text after its AREAS OF INTEREST label
  parsed        \* what the extraction of areas_of_interest made of sub

vars == <<web, clock, cache, pc, task, all_faculty, data, current_time, resp, held, saved, last_done, read, probe, sub, parsed>>

Depts == DOMAIN web

\* Position of a department in the submission order.
pos(d) == CHOOSE i \in 1..Len(DeptOrder) : DeptOrder[i] = d

\* st is the future's state, html the outcome of the listing fetch, nodetail
\* the cards whose detail fetch was made and failed, out the returned list.
NoTask == [st |-> "none", html |-> "pending", nodetail |-> {}, out |-> <<>>]

running(r) == {d \in Depts : task[r][d].st = "running"}

InitWith(depts, listings, subs) ==
  /\ web \in [depts -> listings]
  /\ clock = 1
  /\ cache = NoBlob
  /\ pc = [r \in Reqs |-> "idle"]
  /\ task = [r \in Reqs |-> [d \in depts |-> NoTask]]
  /\ all_faculty = [r \in Reqs |-> <<>>]
  /\ data = [r \in Reqs |-> <<>>]
  /\ current_time = [r \in Reqs |-> 0]
  /\ resp = [r \in Reqs |-> NoBody]
  /\ held = [r \in Reqs |-> NoBlob]
  /\ saved = [r \in Reqs |-> FALSE]
  /\ last_done = 0
  /\ read = NoBody
  /\ probe = NoProbe
  /\ sub \in subs
  /\ parsed = Unparsed

\* ---------------------------------------------------------------- actions
\* A POST /api/faculty/refresh arrives (requests are numbered by arrival) and
\* scrape_all submits one scrape_department per department to the pool.
refresh_faculty(r) ==
  /\ pc[r] = "idle"
  /\ \A q \in Reqs : q < r => pc[q] # "idle"
  /\ pc' = [pc EXCEPT ![r] = "scraping"]
  /\ task' = [task EXCEPT ![r] = [d \in Depts |-> [NoTask EXCEPT !.st = "queued"]]]
  /\ held' = [held EXCEPT ![r] = cache]
  /\ UNCHANGED <<web, clock, cache, all_faculty, data, current_time, resp, saved, last_done, read, probe, sub, parsed>>

\* scrape_all raises (the pool cannot start a thread): the handler's except
\* clause answers 500.
refresh_faculty_except(r) ==
  /\ pc[r] = "idle"
  /\ \A q \in Reqs : q < r => pc[q] # "idle"
  /\ pc' = [pc EXCEPT ![r] = "done"]
  /\ resp' = [resp EXCEPT ![r] = refresh_error_body]
  /\ last_done' = r
  /\ UNCHANGED <<web, clock, cache, task, all_faculty, data, current_time, held, saved, read, probe, sub, parsed>>

\* May a pool of n workers take one more work item?
worker_free_unbounded(busy, n) == TRUE

worker_free(busy, n) == busy < n

\* A pool worker takes the next work item; the queue is first in, first out.
worker_start(r, d) ==
  /\ pc[r] = "scraping"
  /\ task[r][d].st = "queued"
  /\ \A e \in Depts : pos(e) < pos(d) => task[r][e].st # "queued"
  /\ worker_free(Cardinality(running(r)), max_workers)
  /\ task' = [task EXCEPT ![r][d].st = "running"]
  /\ UNCHANGED <<web, clock, cache, pc, all_faculty, data, current_time, resp, held, saved, last_done, read, probe, sub, parsed>>

\* scrape_department runs to its return with the answers the network gives
\* (ok for the listing, detail_ok per card); as_completed yields the future
\* and the loop body extends all_faculty.
worker_finish(r, d, ok, detail_ok) ==
  /\ pc[r] = "scraping"
  /\ task[r][d].st = "running"
  /\ LET html == fetch(Answer(ok, web[d]))
         faculty_list == scrape_department(d, DEPARTMENTS[d], html, detail_ok)
     IN /\ task' = [task EXCEPT ![r][d] =
                      [st |-> "done", html |-> IF ok THEN "ok" ELSE "fail",
                       nodetail |-> {i \in 1..Len(web[d]) :
                                       ok /\ ~skipped(web[d][i]) /\ web[d][i].href /\ ~detail_ok[i]},
                       out |-> faculty_list]]
        /\ all_faculty' = [all_faculty EXCEPT ![r] = extend(@, faculty_list)]
  /\ UNCHANGED <<web, clock, cache, pc, data, current_time, resp, held, saved, last_done, read, probe, sub, parsed>>

\* Every future has been yielded: the executor shuts down, scrape_all sorts and returns.
scrape_all_return_first_completed(r) ==
  /\ pc[r] = "scraping"
  /\ \E d \in Depts : task[r][d].st = "done"
  /\ data' = [data EXCEPT ![r] = sort(all_faculty[r])]
  /\ pc' = [pc EXCEPT ![r] = "scraped"]
  /\ UNCHANGED <<web, clock, cache, task, all_faculty, current_time, resp, held, saved, last_done, read, probe, sub, parsed>>

scrape_all_return(r) ==
  /\ pc[r] = "scraping"
  /\ \A d \in Depts : task[r][d].st = "done"
  /\ data' = [data EXCEPT ![r] = sort(all_faculty[r])]
  /\ pc' = [pc EXCEPT ![r] = "scraped"]
  /\ UNCHANGED <<web, clock, cache, task, all_faculty, current_time, resp, held, saved, last_done, read, probe, sub, parsed>>

\* current_time = get_current_timestamp()
get_current_timestamp(r) ==
  /\ pc[r] = "scraped"
  /\ current_time' = [current_time EXCEPT ![r] = clock]
  /\ pc' = [pc EXCEPT ![r] = "stamped"]
  /\ UNCHANGED <<web, clock, cache, task, all_faculty, data, resp, held, saved, last_done, read, probe, sub, parsed>>

\* save_cache(data, current_time), then the response; the handler returns and
\* its locals are gone.
refresh_faculty_save(r, ok) ==
  /\ pc[r] = "stamped"
  /\ cache' = save_cache(cache, data[r], current_time[r], ok)
  /\ resp' = [resp EXCEPT ![r] = refresh_body(data[r], current_time[r])]
  /\ pc' = [pc EXCEPT ![r] = "done"]
  /\ saved' = [saved EXCEPT ![r] = ok]
  /\ last_done' = r
  /\ all_faculty' = [all_faculty EXCEPT ![r] = <<>>]
  /\ data' = [data EXCEPT ![r] = <<>>]
  /\ current_time' = [current_time EXCEPT ![r] = 0]
  /\ held' = [held EXCEPT ![r] = NoBlob]
  /\ UNCHANGED <<web, clock, task, read, probe, sub, parsed>>

\* GET /api/faculty
get_faculty_fills_cache(ok) ==
  /\ read' = get_faculty_body(load_cache(cache, ok), clock)
  /\ cache' = IF load_cache(cache, ok)[1] = <<>> THEN save_cache(cache, <<>>, clock, TRUE) ELSE cache
  /\ UNCHANGED <<web, clock, pc, task, all_faculty, data, current_time, resp, held, saved, last_done, probe, sub, parsed>>

get_faculty(ok) ==
  /\ read' = get_faculty_body(load_cache(cache, ok), clock)
  /\ UNCHANGED <<web, clock, cache, pc, task, all_faculty, data, current_time, resp, held, saved, last_done, probe, sub, parsed>>

\* GET /
root ==
  /\ probe' = root_body(clock)
  /\ UNCHANGED <<web, clock, cache, pc, task, all_faculty, data, current_time, resp, held, saved, last_done, read, sub, parsed>>

\* GET /api/health
health_check ==
  /\ probe' = health_check_body(clock)
  /\ UNCHANGED <<web, clock, cache, pc, task, all_faculty, data, current_time, resp, held, saved, last_done, read, sub, parsed>>

\* The areas of interest of the fetched detail page are extracted.
extract_areas_of_interest ==
  /\ ~parsed.done
  /\ parsed' = [done |-> TRUE, areas_of_interest |-> areas_of_interest(sub)]
  /\ UNCHANGED <<web, clock, cache, pc, task, all_faculty, data, current_time, resp, held, saved, last_done, read, probe, sub>>

\* A second passes.
Tick ==
  /\ clock < MaxClock
  /\ clock' = clock + 1
  /\ UNCHANGED <<web, cache, pc, task, all_faculty, data, current_time, resp, held, saved, last_done, read, probe, sub, parsed>>

\* ---------------------------------------------------------- specifications
\* Outcomes of the detail fetches of a listing's cards.
DetailOutcomes(d) == [1..Len(web[d]) -> BOOLEAN]

Crawl(r) ==
  \/ refresh_faculty(r)
  \/ refresh_faculty_except(r)
  \/ \E d \in Depts : worker_start(r, d)
  \/ \E d \in Depts, ok \in BOOLEAN : \E detail_ok \in DetailOutcomes(d) : worker_finish(r, d, ok, detail_ok)
  \/ scrape_all_return(r)

Store(r) ==
  \/ get_current_timestamp(r)
  \/ \E ok \in BOOLEAN : refresh_faculty_save(r, ok)

\* The service: overlapping refresh requests, reads and the clock, over a site
\* of one department with one plain card.
Init == InitWith(OneDept, {<<CardPlain>>}, {<<>>})

Next ==
  \/ \E r \in Reqs : Crawl(r)
  \/ \E r \in Reqs : Store(r)
  \/ \E ok \in BOOLEAN : get_faculty(ok)
  \/ root
  \/ health_check
  \/ Tick

Spec == Init /\ [][Next]_vars

\* One refresh over every site of two departments.
InitCrawl == InitWith(TwoDepts, Listings, {<<>>})

NextCrawl == Crawl(1) \/ Store(1)

SpecCrawl == InitCrawl /\ [][NextCrawl]_vars

\* One crawl over all departments.
InitPool == InitWith(DOMAIN DEPARTMENTS, {<<>>}, {<<>>})

NextPool == Crawl(1)

SpecPool == InitPool /\ [][NextPool]_vars

\* A pool worker that has a work item to take takes it, and scrape_department
\* returns: each of its fetches ends by its timeout, (4, 8) or (2, 3) seconds.
SpecPoolFair ==
  /\ SpecPool
  /\ WF_vars(\E d \in Depts : worker_start(1, d))
  /\ WF_vars(\E d \in Depts, ok \in BOOLEAN : \E detail_ok \in DetailOutcomes(d) : worker_finish(1, d, ok, detail_ok))

\* One refresh request over all departments, from its arrival to its response.
NextRefresh == Crawl(1) \/ Store(1)

SpecRefresh == InitPool /\ [][NextRefresh]_vars

\* As SpecPoolFair, and the handler's own thread runs on: the as_completed
\* loop ends once every future is done, then the timestamp, the save (which
\* returns or raises and is caught) and the response.
SpecRefreshFair ==
  /\ SpecRefresh
  /\ WF_vars(\E d \in Depts : worker_start(1, d))
  /\ WF_vars(\E d \in Depts, ok \in BOOLEAN : \E detail_ok \in DetailOutcomes(d) : worker_finish(1, d, ok, detail_ok))
  /\ WF_vars(scrape_all_return(1))
  /\ WF_vars(Store(1))

\* One fetched detail page, out of all of up to MaxText pieces.
InitDetail == InitWith(OneDept, {<<>>}, Subs(MaxText))

NextDetail == extract_areas_of_interest

SpecDetail == InitDetail /\ [][NextDetail]_vars

\* ------------------------------------------------------ notions of the claims
\* scrape_all is executing for request r.
Crawling(r) == pc[r] = "scraping"

\* Between the start of r's crawl and r's replacement of the cache blob.
Refreshing(r) == pc[r] \in {"scraping", "scraped", "stamped"}

\* scrape_all has returned to r's handler, which still holds the result.
Crawled(r) == pc[r] \in {"scraped", "stamped"}

Count(x, s) == Cardinality({i \in 1..Len(s) : s[i] = x})

Range(s) == {s[i] : i \in 1..Len(s)}

SameBag(s, t) ==
  /\ Len(s) = Len(t)
  /\ \A x \in Range(s) \cup Range(t) : Count(x, s) = Count(x, t)

\* What the unit tasks of r returned, concatenated in the order of DEPARTMENTS;
\* with only_ok, the units whose listing fetch failed are left out.
RECURSIVE UnitRecords(_, _, _)
UnitRecords(r, only_ok, i) ==
  IF i > Len(DeptOrder) THEN <<>>
  ELSE LET d == DeptOrder[i]
       IN (IF d \in Depts /\ (~only_ok \/ task[r][d].html = "ok") THEN task[r][d].out ELSE <<>>)
          \o UnitRecords(r, only_ok, i + 1)

\* The key the aggregate is to be ordered by: (ordinal, lower-cased display_name).
OrderingKey(x) == <<x.id, [i \in DOMAIN x.name |-> IF x.name[i] \in 65..90 THEN x.name[i] + 32 ELSE x.name[i]]>>

KeyLeq(k1, k2) == k1 = k2 \/ KeyLess(k1, k2)

WithKey(s, k) == LET Has(x) == OrderingKey(x) = k IN SelectSeq(s, Has)

\* The read this step is: a GET /api/faculty whose load succeeds.
ReadStep == get_faculty(TRUE)

\* ------------------------------------------------------------------ claims
\* C1: at any moment at most one crawl (an execution of scrape_all) is in
\* flight: a refresh request arriving during another refresh starts no second crawl.
C1_AtMostOneCrawl == Cardinality({r \in Reqs : Crawling(r)}) <= 1

\* C2: a read between the start of a refresh's crawl and that refresh's
\* replacement of the snapshot returns exactly the snapshot held before the
\* crawl started.
C2_ReadReturnsPreCrawlSnapshot ==
  [][\A r \in Reqs :
       (Refreshing(r) /\ ReadStep) => read' = get_faculty_body(load_cache(held[r], TRUE), clock)]_vars

\* C3: whichever listing fetches fail, scrape_all returns exactly the records,
\* as a multiset, of the units whose listing fetch succeeded.
C3_FailedUnitsContributeNothing ==
  \A r \in Reqs : Crawled(r) => SameBag(data[r], UnitRecords(r, TRUE, 1))

\* C3 witness: one unit failed although its page has a card to give, the other
\* succeeded with two equal records, and both of them are returned.
C3_Witness ==
  \E r \in Reqs : \E d, e \in Depts :
    /\ Crawled(r)
    /\ task[r][d].html = "fail" /\ \E i \in 1..Len(web[d]) : ~skipped(web[d][i])
    /\ task[r][e].html = "ok" /\ Len(task[r][e].out) = 2 /\ task[r][e].out[1] = task[r][e].out[2]
    /\ data[r] = task[r][e].out

\* C4: for fixed results of the unit tasks the aggregate is one sequence, the
\* same under every order of completion, ties on the key included: it is the
\* sort of the results taken in the order of DEPARTMENTS.
C4_OrderIndependent ==
  \A r \in Reqs : Crawled(r) => data[r] = sort(UnitRecords(r, FALSE, 1))

\* C4 witness: the units completed against the order of DEPARTMENTS, and the
\* aggregate holds two different records that tie on the key.
C4_Witness ==
  \E r \in Reqs :
    /\ Crawled(r)
    /\ all_faculty[r] # UnitRecords(r, FALSE, 1)
    /\ \E i \in 1..(Len(data[r]) - 1) :
         OrderingKey(data[r][i]) = OrderingKey(data[r][i + 1]) /\ data[r][i] # data[r][i + 1]

\* C5: when the store fails during a refresh, the refresh still reports
\* success with the new aggregate, and a read issued after that refresh
\* returns the new aggregate and not the previous one.
C5_FailedStoreStillServesNew ==
  [][\A r \in Reqs :
       (pc[r] = "done" /\ last_done = r /\ resp[r].status = "success" /\ ~saved[r] /\ ReadStep)
       => read'.data = resp[r].data]_vars

\* C6: once a refresh has stored its snapshot, every read answers with status
\* success, the snapshot's records, their number and its timestamp, also when
\* the aggregate is empty.
C6_StoredSnapshotIsServed ==
  [][(cache.exists /\ ReadStep)
     => /\ read'.status = "success"
        /\ read'.data = cache.faculty
        /\ read'.count = Len(cache.faculty)
        /\ read'.last_refreshed = cache.timestamp]_vars

\* C7: after a refresh has completed with a successful store and before any
\* other refresh completes, every read returns the aggregate, the count and
\* the timestamp that the refresh response carried.
C7_ReadMatchesRefreshResponse ==
  [][\A r \in Reqs :
       (pc[r] = "done" /\ last_done = r /\ saved[r] /\ ReadStep)
       => /\ read'.data = resp[r].data
          /\ read'.count = resp[r].count
          /\ read'.last_refreshed = resp[r].last_refreshed]_vars

\* C8: every aggregate scrape_all returns is ascending in the key (ordinal,
\* lower-cased display_name), and records of equal key keep the order in
\* which they were concatenated.
C8_SortedAndStable ==
  \A r \in Reqs : Crawled(r) =>
    /\ \A i \in 1..(Len(data[r]) - 1) : KeyLeq(OrderingKey(data[r][i]), OrderingKey(data[r][i + 1]))
    /\ \A x \in Range(all_faculty[r]) :
         WithKey(data[r], OrderingKey(x)) = WithKey(all_faculty[r], OrderingKey(x))

\* C8 witness: an aggregate in which an upper-case name follows a lower-case
\* one that the code-point order would put behind it, and in which two
\* different records tie on the key.
C8_Witness ==
  \E r \in Reqs :
    /\ Crawled(r)
    /\ \E i \in 1..(Len(data[r]) - 1) :
         data[r][i].id = data[r][i + 1].id /\ StrLess(data[r][i + 1].name, data[r][i].name)
    /\ \E i \in 1..(Len(data[r]) - 1) :
         OrderingKey(data[r][i]) = OrderingKey(data[r][i + 1]) /\ data[r][i] # data[r][i + 1]

\* C9: whatever fetches fail, all of them included, the refresh answers
\* success with the aggregate of the surviving records; it answers error only
\* when scrape_all itself could not run.
C9_SourceFailuresStillSucceed ==
  \A r \in Reqs : pc[r] = "done" =>
    IF \A d \in Depts : task[r][d].st = "none"
    THEN resp[r].status = "error"
    ELSE /\ resp[r].status = "success"
         /\ SameBag(resp[r].data, UnitRecords(r, TRUE, 1))
         /\ resp[r].count = Len(resp[r].data)

\* C9 witness: every listing fetch failed, of pages that had cards to give,
\* and the refresh answered success with the empty aggregate.
C9_Witness ==
  \E r \in Reqs :
    /\ pc[r] = "done"
    /\ \A d \in Depts : task[r][d].html = "fail" /\ \E i \in 1..Len(web[d]) : ~skipped(web[d][i])
    /\ resp[r].status = "success" /\ resp[r].data = <<>>

\* C10: during a crawl the number of unit tasks in flight never exceeds
\* max_workers, and every unit's task is eventually started.
C10_BoundedPoolStartsAll ==
  /\ [](\A r \in Reqs : Cardinality(running(r)) <= max_workers)
  /\ Crawling(1) ~> (\A d \in Depts : task[1][d].st # "queued")

\* C10 witness: max_workers tasks are in flight while further units wait.
C10_Witness ==
  /\ Crawling(1)
  /\ Cardinality(running(1)) = max_workers
  /\ \E d \in Depts : task[1][d].st = "queued"

\* The snapshot that request r's completed crawl produced: its sorted
\* aggregate with its own timestamp, as its response carried them.
SnapshotOf(r) == [exists |-> TRUE, faculty |-> resp[r].data, timestamp |-> resp[r].last_refreshed]

Stored(r) == pc[r] = "done" /\ saved[r] /\ resp[r].status = "success"

\* C11: in every state the snapshot a read can observe is the empty cold-start
\* snapshot or the complete sorted aggregate of one completed crawl with that
\* crawl's timestamp, and every step leaves the snapshot as it was or replaces
\* it wholesale by the stepping refresh's aggregate and timestamp.
C11_SnapshotOfOneCrawl ==
  /\ [](/\ cache = NoBlob \/ \E r \in Reqs : Stored(r) /\ cache = SnapshotOf(r)
        /\ \A i \in 1..(Len(cache.faculty) - 1) :
             KeyLeq(OrderingKey(cache.faculty[i]), OrderingKey(cache.faculty[i + 1]))
        /\ read.status = "success" =>
             \E r \in Reqs : Stored(r) /\ read.data = resp[r].data
                               /\ read.last_refreshed = resp[r].last_refreshed)
  /\ [][cache' = cache
        \/ \E r \in Reqs : pc[r] = "stamped" /\ cache' = [exists |-> TRUE, faculty |-> data[r],
                                                           timestamp |-> current_time[r]]]_vars

\* C11 witness: two crawls with different aggregates and timestamps have both
\* stored, and a read has returned the snapshot of one of them.
C11_Witness ==
  \E r, q \in Reqs :
    /\ Stored(r) /\ Stored(q)
    /\ resp[r].data # resp[q].data /\ resp[r].last_refreshed # resp[q].last_refreshed
    /\ cache = SnapshotOf(r)
    /\ read.status = "success" /\ read.data = resp[r].data

\* C14: the timestamp of the stored snapshot never moves backwards, also when
\* refreshes overlap.
C14_TimestampMonotonic == [][cache'.timestamp >= cache.timestamp]_vars

\* The k-th smallest element of a set of numbers.
Nth(S, k) == CHOOSE i \in S : Cardinality({j \in S : j < i}) = k - 1

\* A card as the listing contract has it well-formed: an image, the primary
\* name heading and at least one heading other than it.
Secondary(card) == {i \in 1..Len(card.h5) : i # name_tag(card)}

ContractWellFormed(card) == card.img # None /\ name_tag(card) # 0 /\ Secondary(card) # {}

LastSecondary(card) == card.h5[CHOOSE i \in Secondary(card) : \A j \in Secondary(card) : j <= i].text

\* C12: the card loop skips a card exactly when it lacks an image, the
\* primary name heading or a secondary heading; every other card yields one
\* record, whose title is the text of its last secondary heading.
C12_SkipsExactlyMalformed ==
  \A r \in Reqs : \A d \in Depts :
    task[r][d].html = "ok" =>
      LET kept == {i \in 1..Len(web[d]) : ContractWellFormed(web[d][i])}
          out  == task[r][d].out
      IN /\ Len(out) = Cardinality(kept)
         /\ \A k \in 1..Len(out) : out[k].title = LastSecondary(web[d][Nth(kept, k)])

\* The cards of a listing that the loop does not skip.
Kept(cards) == {i \in 1..Len(cards) : ~skipped(cards[i])}

\* C13: a card that is not skipped and has no detail link, or whose detail
\* fetch fails, yields one record with email, number and areas_of_interest
\* None; every other card's record is what it is without that failure.
C13_DetailFailureIsolated ==
  \A r \in Reqs : \A d \in Depts :
    task[r][d].html = "ok" =>
      LET cards == web[d]
          out   == task[r][d].out
      IN /\ Len(out) = Cardinality(Kept(cards))
         /\ \A k \in 1..Len(out) :
              LET i == Nth(Kept(cards), k)
              IN /\ out[k].name = cards[i].h5[name_tag(cards[i])].text
                 /\ out[k].id = DEPARTMENTS[d] /\ out[k].department = d
                 /\ IF ~cards[i].href \/ i \in task[r][d].nodetail
                    THEN out[k].email = None /\ out[k].number = None
                         /\ out[k].areas_of_interest = None
                    ELSE out[k].email = cards[i].page.email /\ out[k].number = cards[i].page.number
                         /\ out[k].areas_of_interest = cards[i].page.areas_of_interest

\* C13 witness: of two linked cards the first one's detail fetch failed and the
\* second one's did not; both have their record, the first with no details.
C13_Witness ==
  \E r \in Reqs : \E d \in Depts :
    /\ task[r][d].st = "done" /\ task[r][d].nodetail = {1}
    /\ Len(task[r][d].out) = 2
    /\ task[r][d].out[1].email = None /\ task[r][d].out[1].areas_of_interest = None
    /\ task[r][d].out[2].email # None

\* ------------------------------------------------------------------- C15
\* The request's response has been sent.
Responded(r) == pc[r] = "done" /\ resp[r].status \in {"success", "error"}

AllUnitsFinished(r) == \A d \in Depts : task[r][d].st = "done"

C16_ReadsChangeNothing ==
  /\ [][(read' # read \/ probe' # probe) => (cache' = cache /\ pc' = pc /\ task' = task)]_vars
  /\ [][cache' # cache => \E r \in Reqs : pc[r] = "stamped" /\ pc'[r] = "done" /\ saved'[r]]_vars

C16_Witness ==
  /\ cache = NoBlob
  /\ \A r \in Reqs : pc[r] = "idle"
  /\ read.status = "no_data"
  /\ probe.status = "online"

\* ------------------------------------------------------------------- C17
\* An absolute http(s) URL: a scheme and at least one more character.
HasUrl(t) == \E i \in 1..(Len(t) - 1) : t[i] = "http://" /\ t[i + 1] # " "

Occurs(x, t) == \E i \in 0..(Len(t) - Len(x)) : SubSeq(t, i + 1, i + Len(x)) = x

HasLabel(t) ==
  \/ Occurs(<<"EXTERNAL", " ", "LINK", ":">>, t)
  \/ Occurs(<<"PERSONAL", " ", "WEB", " ", "PAGE", ":">>, t)

\* C17: the interests of a detail page with a labelled block are None or a
\* non-empty text holding no http(s) URL and neither "EXTERNAL LINK:" nor
\* "PERSONAL WEB PAGE:"; without a labelled block they are None.
C17_InterestsAreClean ==
  parsed.done =>
    IF sub = <<>> THEN parsed.areas_of_interest = <<>>
    ELSE \/ parsed.areas_of_interest = <<>>
         \/ /\ parsed.areas_of_interest[1] # <<>>
            /\ ~HasUrl(parsed.areas_of_interest[1])
            /\ ~HasLabel(parsed.areas_of_interest[1])
====
